---------------------------- MODULE Spec2Model ----------------------------
(***************************************************************************)
(* A model of the reinforcement-learning core of the flappy simulator:     *)
(*   - src/src/rl/dqn.js      ReplayBuffer and DQNAgent (neural agent)      *)
(*   - src/unnamed/part_000   tabular Q-learning module and its game scene  *)
(*   - src/unnamed/part_001   game scene driving the DQNAgent               *)
(*                                                                         *)
(* Numbers.  JavaScript doubles are modelled in fixed point:               *)
(*   exploration rates in units of 1/EPS_UNIT, tabular action values in    *)
(*   units of 1/Q_UNIT, DQN target values in units of 1/GAMMA_DEN.         *)
(*   A product with a decimal constant is the integer product followed by  *)
(*   a truncating division.                                                *)
(* The neural network is opaque: its parameters are a version number (how  *)
(* many gradient steps made them) and Predict is a fixed deterministic     *)
(* function of the parameters and the input vector.                        *)
(***************************************************************************)
EXTENDS Integers, Sequences, FiniteSets, TLC

(***************************************************************************)
(* Bounds of the model.                                                    *)
(***************************************************************************)
\* BATCH_SIZE of the model (64 in the source).
BatchBound == 2
\* REPLAY_BUFFER_SIZE of the model (30000 in the source).
CapacityBound == 3
\* TARGET_UPDATE_FREQ / TRAIN_THROTTLE of the model (250 in the source).
SyncEvery == 2
\* train() invocations made by the host in one behaviour.
MaxSteps == 6
\* train() invocations the host leaves unawaited at the same time.
MaxPending == 2
\* add() calls in one behaviour of the replay-buffer specification.
MaxAdds == 5
\* Largest parameter version drawn as an input of the target computation.
MaxWeights == 2
\* Calls of the tabular module in one behaviour of its specification.
MaxTabOps == 4
\* updateQ calls among them.
MaxUpdates == 2
\* Frames (update() calls that get past the gameOver test) in one behaviour of
\* the tabular game loop.
MaxFrames == 3
\* Episodes ended in one behaviour of the tabular game loop.
MaxEpisodes == 2
\* Persistence calls and reloads of the DQNAgent in one behaviour.
MaxBrainOps == 3
\* Sampling calls are made while batchSize * buffer length is at most this.
MaxSampleWork == 8

(***************************************************************************)
(* Constants of src/src/rl/dqn.js.                                         *)
(***************************************************************************)
ACTION_IDLE == 0
ACTION_FLAP == 1
\* ACTIONS of the source (the word is reserved in TLA+)
ACTION_IDS == {ACTION_IDLE, ACTION_FLAP}

\* Units of the exploration rate: 1/10000000.
EPS_UNIT == 10 ^ 7
\* gamma = 0.99 = GAMMA_NUM / GAMMA_DEN
GAMMA_NUM == 99
GAMMA_DEN == 100
\* epsilon = 0.5 and EPSILON_MIN = 0.001, in 1/EPS_UNIT
DQN_EPSILON_INIT == 5000000
DQN_EPSILON_MIN == 10000
\* EPSILON_DECAY = 0.9995 = DQN_DECAY_NUM / DQN_DECAY_DEN
DQN_DECAY_NUM == 9995
DQN_DECAY_DEN == 10000
BATCH_SIZE == BatchBound
REPLAY_BUFFER_SIZE == CapacityBound
TRAIN_THROTTLE == 2
TARGET_UPDATE_FREQ == TRAIN_THROTTLE * SyncEvery
\* inputShape: [7] of createModel, and the [.., 7] of every tensor2d
INPUT_DIM == 7
\* length of the state vector the game scene builds
STATE_DIM == 4

\* x * num / den truncated, for x >= 0, without a product beyond 32 bits.
MulFrac(x, num, den) == (x \div den) * num + ((x % den) * num) \div den

Max2(a, b) == IF a >= b THEN a ELSE b
Min2(a, b) == IF a <= b THEN a ELSE b

\* The vector of n components all equal to v.
Vec(n, v) == [i \in 1..n |-> v]

VARIABLES
  \* ---- DQNAgent (dqn.js) ----
  buffer,              \* replayBuffer.buffer: sequence of transitions, oldest first
  stepCount,           \* this.stepCount
  trainingInProgress,  \* this.trainingInProgress
  model,               \* parameters of this.model (version)
  targetModel,         \* parameters of this.targetModel (version)
  dqnEpsilon,          \* module variable epsilon of dqn.js
  fitting,             \* step numbers of the train() invocations suspended at await fit
  ev,                  \* what the last train() activity did (observation only)
  \* ---- ReplayBuffer on its own ----
  added,               \* every transition passed to add(), in order (observation only)
  sampled,             \* the last sampling call and the batch it returned
  \* ---- target computation on its own ----
  tBatch,              \* the batch handed to the target computation
  tTargets,            \* the targets computed for it (<<>> before)
  tRows,               \* the regression rows handed to fit (<<>> before)
  \* ---- tabular Q-learning module (part_000) ----
  Q,                   \* the table: state key -> (action -> value), in 1/Q_UNIT
  epsilon,             \* module variable epsilon, in 1/EPS_UNIT
  storage,             \* localStorage item 'flappy_brain'
  saved,               \* what the last saveBrain(gen) call was given (observation only)
  tabEv,               \* the last call of the module and its result (observation only)
  tabOps,              \* calls made so far
  tabUpdates,          \* updateQ calls made so far
  \* ---- tabular game scene (part_000, class Game) ----
  scene,               \* gameOver, generation, lastState, lastAction, bonusReward
  phase,               \* "boot": constructed; "play": created; "over": endGame ran
  frames,              \* frames played so far
  gameEv,              \* the last handler of the scene that ran (observation only)
  \* ---- persistence of the DQNAgent (dqn.js) ----
  dqnStore,            \* parameters stored at 'localstorage://flappy-dqn' (NoModel: none)
  dqnMeta,             \* localStorage item 'flappy_dqn_metadata'
  brainEv,             \* the last persistence call and its result (observation only)
  brainOps,            \* persistence calls and reloads made so far
  \* ---- neural game scene (part_001, class Game) ----
  nScene,              \* gameOver, generation, lastState, lastAction, bonusReward
  nPhase,              \* "boot", "play", "over" (endGame ran), "stuck" (hitPipe rejected)
  nFrames,             \* update() calls that got past the gameOver test
  nEv,                 \* the last handler of the scene that ran (observation only)
  nTrace               \* which frame and episode each recorded transition pairs, and
                       \* how often the pending bonus was added (observation only)

dqnVars == <<buffer, stepCount, trainingInProgress, model, targetModel,
             dqnEpsilon, fitting, ev>>
bufVars == <<added, sampled>>
tgtVars == <<tBatch, tTargets, tRows>>
tabVars == <<Q, epsilon, storage, saved, tabEv, tabOps, tabUpdates>>
gameVars == <<scene, phase, frames, gameEv>>
brainVars == <<dqnStore, dqnMeta, brainEv, brainOps>>
neuralVars == <<nScene, nPhase, nFrames, nEv, nTrace>>
vars == <<buffer, stepCount, trainingInProgress, model, targetModel,
          dqnEpsilon, fitting, ev, added, sampled, tBatch, tTargets, tRows,
          Q, epsilon, storage, saved, tabEv, tabOps, tabUpdates,
          scene, phase, frames, gameEv,
          dqnStore, dqnMeta, brainEv, brainOps,
          nScene, nPhase, nFrames, nEv, nTrace>>

(***************************************************************************)
(* ReplayBuffer                                                            *)
(***************************************************************************)
Transition(s, a, r, s2, d) ==
  [state |-> s, action |-> a, reward |-> r, nextState |-> s2, done |-> d]

\* ReplayBuffer.add, with the buffer dropping its tail instead of its head.
ReplayBufferAdd_DropNewest(buf, maxSize, t) ==
  IF Len(buf) >= maxSize THEN Append(SubSeq(buf, 1, Len(buf) - 1), t)
  ELSE Append(buf, t)

\* ReplayBuffer.add: shift() when length >= maxSize, then push.
ReplayBufferAdd(buf, maxSize, t) ==
  IF Len(buf) >= maxSize THEN Append(Tail(buf), t) ELSE Append(buf, t)

\* Part 1 of the default sampling taking the oldest entries instead.
RecentPart_Oldest(buf, numRecent) ==
  LET n == Min2(Len(buf), numRecent)
  IN [k \in 1..n |-> buf[k]]

\* The last numRecent entries, newest first (part 1 of the default sampling).
RecentPart(buf, numRecent) ==
  LET recentStart == Max2(0, Len(buf) - numRecent)
      n == Len(buf) - recentStart
  IN [k \in 1..n |-> buf[Len(buf) - k + 1]]

\* ReplayBuffer.sampleLastPrioritizedAndRandom: every batch the random draws
\* and the final shuffle can produce.
SampleLastPrioritizedAndRandom(buf, batchSize) ==
  LET numRecent == batchSize \div 4
      numRandom == batchSize - numRecent
      recent == RecentPart(buf, numRecent)
      draws == IF numRandom > 0 /\ Len(buf) > 0
               THEN [1..numRandom -> 1..Len(buf)]
               ELSE {<<>>}
  IN UNION { LET base == recent \o [k \in 1..Len(d) |-> buf[d[k]]]
             IN { [k \in 1..Len(base) |-> base[p[k]]] :
                    p \in Permutations(1..Len(base)) }
           : d \in draws }

\* this.buffer[idx] for an index that is not in the array: undefined.
Undefined == [undefined |-> TRUE]

\* ReplayBuffer.sampleRandomBasic: every batch the random draws can produce.
\* On an empty buffer idx is Math.floor(Math.random() * 0) = 0 and
\* this.buffer[0] is undefined.
SampleRandomBasic(buf, batchSize) ==
  IF Len(buf) = 0
  THEN { [k \in 1..batchSize |-> Undefined] }
  ELSE { [k \in 1..batchSize |-> buf[d[k]]] : d \in [1..batchSize -> 1..Len(buf)] }

\* |reward| + 1 of each stored transition, and the running sums (cumsum times
\* total; rewards are whole numbers in the model).
AbsReward(t) == (IF t.reward >= 0 THEN t.reward ELSE 0 - t.reward) + 1

RECURSIVE CumSum(_, _)
CumSum(buf, i) == IF i = 0 THEN 0 ELSE CumSum(buf, i - 1) + AbsReward(buf[i])

\* The index the binary search ends on for the draw rand = u / (2 * total):
\* the first whose cumsum is at least rand.
PrioritizedIndex(buf, u) ==
  CHOOSE i \in 1..Len(buf) :
    /\ 2 * CumSum(buf, i) >= u
    /\ \A j \in 1..(i - 1) : 2 * CumSum(buf, j) < u

\* ReplayBuffer.sampleRewardPrioritized: every batch the random draws and the
\* final shuffle can produce.
SampleRewardPrioritized(buf, batchSize) ==
  IF Len(buf) = 0 THEN { <<>> }
  ELSE LET total == CumSum(buf, Len(buf))
           idxs == { PrioritizedIndex(buf, u) : u \in 0..(2 * total - 1) }
       IN { [k \in 1..batchSize |-> buf[d[k]]] : d \in [1..batchSize -> idxs] }

\* No sampling call made yet.
NoSample == [valid |-> FALSE]

(***************************************************************************)
(* Tabular Q-learning module (src/unnamed/part_000, lines 1-146)           *)
(***************************************************************************)
\* Units of the action values: 1/100.
Q_UNIT == 10 ^ 2
\* alpha = 0.2 = 1 / ALPHA_DEN
ALPHA_DEN == 5
\* gamma = 1.0
TAB_GAMMA == 1
\* epsilon = 0.3 and EPSILON_MIN = 0.01, in 1/EPS_UNIT
TAB_EPSILON_INIT == 3000000
TAB_EPSILON_MIN == 100000
\* EPSILON_DECAY = 0.98 = TAB_DECAY_NUM / TAB_DECAY_DEN
TAB_DECAY_NUM == 98
TAB_DECAY_DEN == 100
\* epsilon after resetBrain(): 0.1
TAB_EPSILON_RESET == 1000000

\* The empty table {}.
EmptyQ == <<>>

\* A JavaScript number used as a condition: 0 (like undefined) is false.
Falsy(v) == v = 0

\* v || d
OrElse(v, d) == IF Falsy(v) THEN d ELSE v

\* getQ(state) making the new entry in a table that forgets its other keys.
getQ_Forgetful(q, state) ==
  IF state \in DOMAIN q THEN q
  ELSE (state :> [a \in ACTION_IDS |-> 0])

\* getQ(state) with the new entry made with 1 for every action.
getQ_Ones(q, state) ==
  IF state \in DOMAIN q THEN q
  ELSE q @@ (state :> [a \in ACTION_IDS |-> 1])

\* getQ(state): the table after the lookup, the entry made with 0 for every
\* action when the key is not in it.
getQ(q, state) ==
  IF state \in DOMAIN q THEN q
  ELSE q @@ (state :> [a \in ACTION_IDS |-> 0])

\* alpha * x
AlphaTimes(x) == x \div ALPHA_DEN

\* updateQ with the discounted next value left out of the target.
updateQ_NoBootstrap(q, state, action, reward, nextState) ==
  LET q1 == getQ(q, state)
      currentQ == q1[state][action]
      q2 == getQ(q1, nextState)
  IN [q2 EXCEPT ![state][action] = currentQ + AlphaTimes(reward - currentQ)]

\* updateQ(state, action, reward, nextState): the table after the call.
updateQ(q, state, action, reward, nextState) ==
  LET q1 == getQ(q, state)
      currentQ == q1[state][action]
      q2 == getQ(q1, nextState)
      maxNextQ == Max2(q2[nextState][ACTION_IDLE], q2[nextState][ACTION_FLAP])
  IN [q2 EXCEPT ![state][action] =
        currentQ + AlphaTimes(reward + TAB_GAMMA * maxNextQ - currentQ)]

\* decayEpsilon() without the test that puts the product back on the floor.
decayEpsilon_NoFloor(e) ==
  IF e > TAB_EPSILON_MIN THEN MulFrac(e, TAB_DECAY_NUM, TAB_DECAY_DEN) ELSE e

\* decayEpsilon() of the tabular module.
decayEpsilon(e) ==
  IF e > TAB_EPSILON_MIN
  THEN LET m == MulFrac(e, TAB_DECAY_NUM, TAB_DECAY_DEN)
       IN IF m < TAB_EPSILON_MIN THEN TAB_EPSILON_MIN ELSE m
  ELSE e

\* JSON.stringify of a table: one entry per key, the two values by action id.
StringifyQ(q) == { <<k, q[k][ACTION_IDLE], q[k][ACTION_FLAP]>> : k \in DOMAIN q }

\* JSON.parse of a stringified table.
ParseQ(text) ==
  [k \in { e[1] : e \in text } |->
     LET e == CHOOSE x \in text : x[1] = k
     IN [a \in ACTION_IDS |-> IF a = ACTION_IDLE THEN e[2] ELSE e[3]]]

\* No item under the key.
NoItem == [kind |-> "none"]

\* saveBrain(gen): the item written to localStorage.
saveBrain(q, e, gen) ==
  [kind |-> "json", Q |-> StringifyQ(q), epsilon |-> e, generation |-> OrElse(gen, 1)]

\* An item that is not JSON text: JSON.parse(data) throws a SyntaxError.
GarbledItem == [kind |-> "garbled"]

\* An item that parses to an object without a Q member.
NoTableItem == [kind |-> "noTable"]

\* The item "null": JSON.parse gives null, and parsed.Q throws a TypeError.
NullItem == [kind |-> "null"]

\* Items that JSON.parse, or the member access on its result, throws on.
ThrowingItems == {GarbledItem, NullItem}

\* loadBrain(): the table, the exploration rate and the result; threw when the
\* call ends by an exception instead of returning (JSON.parse is not guarded).
loadBrain(q, e, item) ==
  IF item.kind = "json"
  THEN [Q |-> ParseQ(item.Q),
        epsilon |-> OrElse(item.epsilon, e),
        success |-> TRUE,
        generation |-> OrElse(item.generation, 1),
        threw |-> FALSE]
  ELSE [Q |-> q, epsilon |-> e, success |-> FALSE, generation |-> 1,
        threw |-> item \in ThrowingItems]

\* chooseAction(state) with a tie resolved in favour of IDLE.
chooseAction_IdleOnTie(q, e, state) ==
  LET explore == IF e > 0 THEN {<<q, ACTION_FLAP>>, <<q, ACTION_IDLE>>} ELSE {}
      q1 == getQ(q, state)
      greedy == IF q1[state][ACTION_FLAP] > q1[state][ACTION_IDLE]
                THEN {<<q1, ACTION_FLAP>>}
                ELSE {<<q1, ACTION_IDLE>>}
      exploit == IF e < EPS_UNIT THEN greedy ELSE {}
  IN explore \cup exploit

\* chooseAction(state): every (table, action) the two random draws allow.
\* Math.random() is in [0, 1): exploring needs epsilon > 0, exploiting epsilon < 1.
chooseAction(q, e, state) ==
  LET explore == IF e > 0 THEN {<<q, ACTION_FLAP>>, <<q, ACTION_IDLE>>} ELSE {}
      q1 == getQ(q, state)
      greedy == IF q1[state][ACTION_IDLE] = q1[state][ACTION_FLAP]
                THEN {<<q1, a>> : a \in ACTION_IDS}
                ELSE IF q1[state][ACTION_FLAP] > q1[state][ACTION_IDLE]
                     THEN {<<q1, ACTION_FLAP>>}
                     ELSE {<<q1, ACTION_IDLE>>}
      exploit == IF e < EPS_UNIT THEN greedy ELSE {}
  IN explore \cup exploit

\* State keys getStateKey produces for the observations of the model.
StateKeys == {<<0, 0>>, <<1, 0>>}

NoSave == [valid |-> FALSE]

TabEvent(op) == [op |-> op]

\* The module as loaded: Q = {}, epsilon = 0.3, nothing stored.
InitTab ==
  /\ Q = EmptyQ
  /\ epsilon = TAB_EPSILON_INIT
  /\ storage = NoItem
  /\ saved = NoSave
  /\ tabEv = TabEvent("init")
  /\ tabOps = 0
  /\ tabUpdates = 0

(***************************************************************************)
(* Constants and constructor of the tabular game scene (part_000, Game)    *)
(***************************************************************************)
\* this.lastState = null
NoState == <<>>
\* this.lastAction = null
NoAction == -1
\* const deathReward = -100, in 1/Q_UNIT
DEATH_REWARD == (-100) * Q_UNIT
\* this.bonusReward = 100 in the scoring-zone overlap callback, in 1/Q_UNIT
PIPE_BONUS == 100 * Q_UNIT
\* Values of this.proximityReward, in 1/Q_UNIT: it is 0 with no pipe ahead and
\* lies in [-0.5, 0.5] otherwise; the model takes 0 and 0.5.
ProxRewards == {0, 50}

\* constructor()
InitScene ==
  /\ scene = [gameOver |-> FALSE, generation |-> 1, lastState |-> NoState,
              lastAction |-> NoAction, bonusReward |-> 0]
  /\ phase = "boot"
  /\ frames = 0
  /\ gameEv = "constructor"

(***************************************************************************)
(* DQNAgent                                                                *)
(***************************************************************************)
\* DQNAgent.decayEpsilon applied twice.
DqnDecayEpsilon_Twice(e) ==
  LET once == IF e > DQN_EPSILON_MIN
              THEN Max2(DQN_EPSILON_MIN, MulFrac(e, DQN_DECAY_NUM, DQN_DECAY_DEN))
              ELSE e
  IN IF once > DQN_EPSILON_MIN
     THEN Max2(DQN_EPSILON_MIN, MulFrac(once, DQN_DECAY_NUM, DQN_DECAY_DEN))
     ELSE once

\* DQNAgent.decayEpsilon: epsilon *= EPSILON_DECAY, floored at EPSILON_MIN,
\* only while epsilon > EPSILON_MIN.
DqnDecayEpsilon(e) ==
  IF e > DQN_EPSILON_MIN
  THEN LET m == MulFrac(e, DQN_DECAY_NUM, DQN_DECAY_DEN)
       IN IF m < DQN_EPSILON_MIN THEN DQN_EPSILON_MIN ELSE m
  ELSE e

\* this.model.predict / this.targetModel.predict on one input vector: the two
\* action values, a fixed function of the parameters w and the input s.
Predict(w, s) ==
  [a \in ACTION_IDS |-> IF a = ACTION_IDLE THEN w + s[1] ELSE w * s[1] - 1]

\* nextQValues.max(1) for one row.
MaxNextQ(w, s) == Max2(Predict(w, s)[ACTION_IDLE], Predict(w, s)[ACTION_FLAP])

\* dones.push(transition.done ? 1 : 0), then logicalNot(cast(doneTensor, 'bool')).
NotDone(t) == IF t.done THEN 0 ELSE 1

\* targetQ with the done mask left out of the product.
TargetQ_NoMask(batch, w) ==
  [k \in 1..Len(batch) |->
     GAMMA_DEN * batch[k].reward + GAMMA_NUM * MaxNextQ(w, batch[k].nextState)]

\* targetQ = rewardTensor.add(maxNextQ.mul(gamma).mul(notDone)), row by row, in
\* units of 1/GAMMA_DEN; w are the parameters of the target model.
TargetQ(batch, w) ==
  [k \in 1..Len(batch) |->
     GAMMA_DEN * batch[k].reward
       + GAMMA_NUM * MaxNextQ(w, batch[k].nextState) * NotDone(batch[k])]

\* The rows of the targets tensor with every component overwritten by targetQ.
TargetRows_AllActions(batch, wo, w) ==
  [k \in 1..Len(batch) |-> [a \in ACTION_IDS |-> TargetQ(batch, w)[k]]]

\* The rows of the targets tensor, in units of 1/GAMMA_DEN: qValuesArray is the
\* online model's output for the batch states, and
\* qValuesArray[i][actions[i]] = targetQArray[i].
TargetRows(batch, wo, w) ==
  [k \in 1..Len(batch) |->
     [a \in ACTION_IDS |->
        IF a = batch[k].action THEN TargetQ(batch, w)[k]
        ELSE GAMMA_DEN * Predict(wo, batch[k].state)[a]]]

\* tf.tensor2d(states, [BATCH_SIZE, 7]) and tf.tensor2d(nextStates, [BATCH_SIZE, 7])
\* throw when the values do not have the stated shape.
TensorShapeError(batch) ==
  \/ Len(batch) # BATCH_SIZE
  \/ \E k \in 1..Len(batch) :
       \/ Len(batch[k].state) # INPUT_DIM
       \/ Len(batch[k].nextState) # INPUT_DIM

\* The throttle test with its sense lost: no invocation is throttled.
Throttled_Never(step) == FALSE

\* if (this.stepCount % TRAIN_THROTTLE !== 0) return;
Throttled(step) == step % TRAIN_THROTTLE # 0

\* if (this.replayBuffer.size() < BATCH_SIZE) return;
BufferTooSmall(buf) == Len(buf) < BATCH_SIZE

\* The in-progress test left out.
Busy_Never(flag) == FALSE

\* if (this.trainingInProgress) return;
Busy(flag) == flag

\* The parameters a completed fit leaves in this.model.
FitResult(w) == w + 1

\* SyncTarget with the test of the step counter lost: the online weights are
\* copied at the end of every learning step.
SyncTarget_EveryStep(step, online, target) == online

\* The target parameters after
\*   if (this.stepCount % TARGET_UPDATE_FREQ === 0) targetModel.setWeights(model.getWeights())
SyncTarget(step, online, target) ==
  IF step % TARGET_UPDATE_FREQ = 0 THEN online ELSE target

Synced(step) == step % TARGET_UPDATE_FREQ = 0

\* Transitions the host stores: the first two have the model's input length, the
\* last is built as the game scene builds it (STATE_DIM components).
TrainInputs ==
  { Transition(Vec(INPUT_DIM, 0), ACTION_IDLE, 1, Vec(INPUT_DIM, 1), FALSE),
    Transition(Vec(INPUT_DIM, 1), ACTION_FLAP, -50, Vec(INPUT_DIM, 0), TRUE),
    Transition(Vec(STATE_DIM, 0), ACTION_IDLE, 1, Vec(STATE_DIM, 1), FALSE) }

Event(kind, step, flagBefore, synced) ==
  [kind |-> kind, step |-> step, flagBefore |-> flagBefore, synced |-> synced]

\* constructor(): both models built, target set to the online weights.
InitDqn ==
  /\ buffer = <<>>
  /\ stepCount = 0
  /\ trainingInProgress = FALSE
  /\ model = 0
  /\ targetModel = 0
  /\ dqnEpsilon = DQN_EPSILON_INIT
  /\ fitting = {}
  /\ ev = Event("init", 0, FALSE, FALSE)

\* agent.replayBuffer.add(...) by the host.
AddTransition ==
  /\ \E t \in TrainInputs : buffer' = ReplayBufferAdd(buffer, REPLAY_BUFFER_SIZE, t)
  /\ ev' = Event("add", 0, trainingInProgress, FALSE)
  /\ UNCHANGED <<stepCount, trainingInProgress, model, targetModel, dqnEpsilon,
                 fitting>>
  /\ UNCHANGED <<bufVars, tgtVars, tabVars, gameVars, brainVars, neuralVars>>

\* train(), one of the three early returns (lines 179-188).
EarlyReturn(kind, step) ==
  /\ ev' = Event(kind, step, trainingInProgress, FALSE)
  /\ UNCHANGED <<trainingInProgress, model, targetModel, dqnEpsilon, fitting>>

\* train() from this.trainingInProgress = true to its first suspension or its
\* end (lines 190-236, and 252-261 when the target computation throws).
LearningStep(buf, step) ==
  \E shapeError \in { TensorShapeError(batch) :
                         batch \in SampleLastPrioritizedAndRandom(buf, BATCH_SIZE) } :
    IF shapeError
    THEN \* thrown at lines 209-212, before the try: train() rejects
         /\ trainingInProgress' = TRUE
         /\ ev' = Event("tensorError", step, trainingInProgress, FALSE)
         /\ UNCHANGED <<model, targetModel, dqnEpsilon, fitting>>
    ELSE \E thrown \in BOOLEAN :
           IF thrown
           THEN \* thrown inside tf.tidy: catch, finally, then the sync test
                /\ trainingInProgress' = FALSE
                /\ targetModel' = SyncTarget(step, model, targetModel)
                /\ ev' = Event("targetError", step, trainingInProgress, Synced(step))
                /\ UNCHANGED <<model, dqnEpsilon, fitting>>
           ELSE \* suspended at await this.model.fit
                /\ trainingInProgress' = TRUE
                /\ fitting' = fitting \cup {step}
                /\ ev' = Event("suspended", step, trainingInProgress, FALSE)
                /\ UNCHANGED <<model, targetModel, dqnEpsilon>>

\* The body of train() on the replay buffer buf, from this.stepCount++ to the
\* first suspension or the end of the invocation.
Train(buf) ==
  LET step == stepCount + 1
  IN /\ stepCount' = step
     /\ IF Throttled(step) THEN EarlyReturn("throttled", step)
        ELSE IF BufferTooSmall(buf) THEN EarlyReturn("smallBuffer", step)
        ELSE IF Busy(trainingInProgress) THEN EarlyReturn("busy", step)
        ELSE LearningStep(buf, step)

\* train() called by the host, run to its first suspension or its end.
TrainCall ==
  /\ stepCount < MaxSteps
  /\ Cardinality(fitting) < MaxPending
  /\ Train(buffer)
  /\ UNCHANGED <<buffer, bufVars, tgtVars, tabVars, gameVars, brainVars, neuralVars>>

\* train() resumed when its fit settles (lines 242-261): decay on success, the
\* catch on failure, the finally, then the sync test on the current stepCount.
TrainResume ==
  /\ \E step \in fitting :
       \E ok \in BOOLEAN, changed \in BOOLEAN :
         /\ ok => changed
         /\ model' = IF changed THEN FitResult(model) ELSE model
         /\ dqnEpsilon' = IF ok THEN DqnDecayEpsilon(dqnEpsilon) ELSE dqnEpsilon
         /\ trainingInProgress' = FALSE
         /\ targetModel' = SyncTarget(stepCount, model', targetModel)
         /\ fitting' = fitting \ {step}
         /\ ev' = Event(IF ok THEN "fitDone" ELSE "fitError", step,
                        trainingInProgress, Synced(stepCount))
  /\ UNCHANGED <<buffer, stepCount, bufVars, tgtVars, tabVars, gameVars, brainVars, neuralVars>>

InitOthers ==
  /\ added = <<>>
  /\ sampled = NoSample
  /\ tBatch = <<>>
  /\ tTargets = <<>>
  /\ tRows = <<>>

(***************************************************************************)
(* Persistence of the DQNAgent (dqn.js, lines 264-295 and 314-319)         *)
(***************************************************************************)
\* Nothing stored at 'localstorage://flappy-dqn': tf.loadLayersModel rejects.
NoModel == -1
\* No item under 'flappy_dqn_metadata': getItem gives null, JSON.parse(null) null.
NoMeta == [kind |-> "none"]
\* An item that is not JSON text: JSON.parse throws inside the try.
GarbledMeta == [kind |-> "garbled"]
\* epsilon = 0.1 of resetBrain(), in 1/EPS_UNIT
DQN_EPSILON_RESET == 1000000

\* saveBrain(generation): the stored parameters and the metadata item.
DqnSaveBrain(w, e, generation) ==
  [store |-> w, meta |-> [kind |-> "json", epsilon |-> e, generation |-> generation]]

\* loadBrain(): the online and target parameters, the exploration rate and the
\* result.  Everything runs inside the try, whose catch returns not-found.
DqnLoadBrain(w, t, e, store, meta) ==
  IF store = NoModel
  THEN \* loadLayersModel rejects: caught
       [model |-> w, targetModel |-> t, epsilon |-> e,
        success |-> FALSE, generation |-> 1, threw |-> FALSE]
  ELSE IF meta.kind = "json"
       THEN [model |-> store, targetModel |-> store, epsilon |-> meta.epsilon,
             success |-> TRUE, generation |-> meta.generation, threw |-> FALSE]
       ELSE \* this.model and this.targetModel are already replaced when the
            \* metadata turns out to be null, or JSON.parse throws and is caught
            [model |-> store, targetModel |-> store, epsilon |-> e,
             success |-> FALSE, generation |-> 1, threw |-> FALSE]

InitBrain ==
  /\ dqnStore = NoModel
  /\ dqnMeta = NoMeta
  /\ brainEv = [op |-> "init"]
  /\ brainOps = 0

BrainCall == brainOps < MaxBrainOps /\ brainOps' = brainOps + 1

\* agent.saveBrain(generation) by the host.
CallDqnSaveBrain ==
  /\ BrainCall
  /\ \E gen \in {2, 7} :
       LET r == DqnSaveBrain(model, dqnEpsilon, gen)
       IN /\ dqnStore' = r.store
          /\ dqnMeta' = r.meta
  /\ brainEv' = [op |-> "saveBrain"]
  /\ UNCHANGED <<dqnVars, bufVars, tgtVars, tabVars, gameVars, neuralVars>>

\* agent.loadBrain() by the host, with no learning step in flight (the scene
\* calls it from create(), before the first frame).
CallDqnLoadBrain ==
  /\ BrainCall
  /\ fitting = {}
  /\ LET r == DqnLoadBrain(model, targetModel, dqnEpsilon, dqnStore, dqnMeta)
     IN /\ model' = r.model
        /\ targetModel' = r.targetModel
        /\ dqnEpsilon' = r.epsilon
        /\ brainEv' = [op |-> "loadBrain", success |-> r.success,
                       generation |-> r.generation, threw |-> r.threw]
  /\ UNCHANGED <<buffer, stepCount, trainingInProgress, fitting, ev, dqnStore, dqnMeta>>
  /\ UNCHANGED <<bufVars, tgtVars, tabVars, gameVars, neuralVars>>

\* resetBrain(): removeItem('flappy-dqn'), removeItem('flappy_dqn_metadata'),
\* epsilon = 0.1.  Which keys model.save() wrote is the library's choice: the
\* stored parameters go only if 'flappy-dqn' is the key that holds them.
CallDqnResetBrain ==
  /\ BrainCall
  /\ dqnStore' \in {dqnStore, NoModel}
  /\ dqnMeta' = NoMeta
  /\ dqnEpsilon' = DQN_EPSILON_RESET
  /\ brainEv' = [op |-> "resetBrain"]
  /\ UNCHANGED <<buffer, stepCount, trainingInProgress, model, targetModel, fitting, ev>>
  /\ UNCHANGED <<bufVars, tgtVars, tabVars, gameVars, neuralVars>>

\* The metadata item is removed or replaced from outside the program.
ForeignMetaWrite ==
  /\ BrainCall
  /\ dqnStore # NoModel
  /\ dqnMeta' \in {NoMeta, GarbledMeta}
  /\ dqnMeta' # dqnMeta
  /\ brainEv' = [op |-> "foreignWrite"]
  /\ UNCHANGED dqnStore
  /\ UNCHANGED <<dqnVars, bufVars, tgtVars, tabVars, gameVars, neuralVars>>

\* The page is loaded again: epsilon = 0.5 and new DQNAgent().
AgentReload ==
  /\ BrainCall
  /\ buffer' = <<>>
  /\ stepCount' = 0
  /\ trainingInProgress' = FALSE
  /\ model' = 0
  /\ targetModel' = 0
  /\ dqnEpsilon' = DQN_EPSILON_INIT
  /\ fitting' = {}
  /\ ev' = Event("init", 0, FALSE, FALSE)
  /\ brainEv' = [op |-> "construct"]
  /\ UNCHANGED <<dqnStore, dqnMeta>>
  /\ UNCHANGED <<bufVars, tgtVars, tabVars, gameVars, neuralVars>>

\* The last handler of the neural scene and how it ended.
NeuralEvent(op, outcome) == [op |-> op, outcome |-> outcome]

InitNeural ==
  /\ nScene = [gameOver |-> FALSE, generation |-> 1, lastState |-> NoState,
               lastAction |-> NoAction, bonusReward |-> 0]
  /\ nPhase = "boot"
  /\ nFrames = 0
  /\ nEv = NeuralEvent("constructor", "ok")
  /\ nTrace = [episode |-> 0, frames |-> 0, lastFrame |-> 0, lastEpisode |-> 0,
               log |-> <<>>, bonusAdds |-> 0, bonusLost |-> FALSE]

Init == InitDqn /\ InitOthers /\ InitTab /\ InitScene /\ InitBrain /\ InitNeural

Next == AddTransition \/ TrainCall \/ TrainResume

\* The DQNAgent under any order of add(), train() and fit completions.
Spec == Init /\ [][Next]_vars

\* The DQNAgent trained, saved, loaded and reset in any order, on a replay
\* buffer the host has filled with BATCH_SIZE transitions of the model's input
\* length.
WarmBuffer ==
  [k \in 1..BATCH_SIZE |->
     Transition(Vec(INPUT_DIM, 0), ACTION_IDLE, 1, Vec(INPUT_DIM, 1), FALSE)]

InitWarm ==
  /\ buffer = WarmBuffer
  /\ stepCount = 0
  /\ trainingInProgress = FALSE
  /\ model = 0
  /\ targetModel = 0
  /\ dqnEpsilon = DQN_EPSILON_INIT
  /\ fitting = {}
  /\ ev = Event("init", 0, FALSE, FALSE)
  /\ InitOthers /\ InitTab /\ InitScene /\ InitBrain /\ InitNeural

NextBrain ==
  \/ TrainCall
  \/ TrainResume
  \/ CallDqnSaveBrain
  \/ CallDqnLoadBrain
  \/ CallDqnResetBrain
  \/ ForeignMetaWrite
  \/ AgentReload

SpecBrain == InitWarm /\ [][NextBrain]_vars

(***************************************************************************)
(* Neural game scene (src/unnamed/part_001, class Game) driving DQNAgent   *)
(***************************************************************************)
\* Units of the rewards of the scene: 1/2.
NR_UNIT == 1 + 1
\* const deathReward = -50
N_DEATH_REWARD == (-50) * NR_UNIT
\* this.bonusReward = 15 in the scoring-zone overlap callback
N_PIPE_BONUS == 15 * NR_UNIT
\* Values of this.proximityReward, which lies in [-0.5, 0.5]: 0 and 0.5.
NProxRewards == {0, 1}
\* const terminalState = [0, 0, 0, 0]
TerminalState == Vec(STATE_DIM, 0)
\* currentState = [dx / 1000, dy / 400, velY / 1000, gapHeight / 400]: the
\* observations of the model.
NeuralStates == { Vec(STATE_DIM, v) : v \in 1..2 }

\* tf.tensor2d([state], [1, 7]) of chooseAction and getQValues throws when the
\* state does not have 7 components.
StateShapeError(state) == Len(state) # INPUT_DIM

\* qValues.argMax(1): the first index holding the largest value.
ArgMax(qv) == IF qv[ACTION_FLAP] > qv[ACTION_IDLE] THEN ACTION_FLAP ELSE ACTION_IDLE

\* DQNAgent.chooseAction(state): every outcome the random draw allows; threw
\* when the promise is rejected.
DqnChooseAction(w, e, state) ==
  LET explore == IF e > 0
                 THEN { [threw |-> FALSE, action |-> a] : a \in ACTION_IDS }
                 ELSE {}
      exploit == IF e < EPS_UNIT
                 THEN IF StateShapeError(state)
                      THEN { [threw |-> TRUE, action |-> NoAction] }
                      ELSE { [threw |-> FALSE, action |-> ArgMax(Predict(w, state))] }
                 ELSE {}
  IN explore \cup exploit

HasLast(sc) == sc.lastState # NoState /\ sc.lastAction # NoAction

\* The learning step of a train() call awaited by the scene ended by an
\* exception: the await rejects the handler that made the call.
TrainRejected(e) == e.kind = "tensorError"

\* One replayBuffer.add() of the scene as the observation records it: the
\* frame and episode in which its state was observed, the frame and episode
\* of the call (frame 0: the terminal state of hitPipe), and whether its
\* reward includes a gap-pass bonus.
Recorded(tr, toFrame, done, bonus) ==
  [from |-> tr.lastFrame, fromEpisode |-> tr.lastEpisode,
   to |-> toFrame, toEpisode |-> tr.episode, done |-> done, bonus |-> bonus]

\* The observation after this.bonusReward is set to 0 while it held `held`.
BonusCleared(tr, held) ==
  [tr EXCEPT !.bonusLost = tr.bonusLost \/ (held > 0 /\ tr.bonusAdds = 0)]

\* create() without this.lastState = null and this.lastAction = null.
NeuralCreate_KeepStepMemory ==
  /\ nPhase \in {"boot", "over"}
  /\ nScene.generation <= MaxEpisodes
  /\ fitting = {}
  /\ LET r == IF nScene.generation = 1
              THEN DqnLoadBrain(model, targetModel, dqnEpsilon, dqnStore, dqnMeta)
              ELSE [model |-> model, targetModel |-> targetModel, epsilon |-> dqnEpsilon,
                    success |-> FALSE, generation |-> 1, threw |-> FALSE]
     IN /\ model' = r.model
        /\ targetModel' = r.targetModel
        /\ dqnEpsilon' = r.epsilon
        /\ nScene' = [gameOver |-> FALSE,
                      generation |-> IF r.success THEN r.generation ELSE nScene.generation,
                      lastState |-> nScene.lastState, lastAction |-> nScene.lastAction,
                      bonusReward |-> 0]
  /\ nPhase' = "play"
  /\ nEv' = NeuralEvent("create", "ok")
  /\ nTrace' = [BonusCleared(nTrace, nScene.bonusReward) EXCEPT
                  !.episode = nTrace.episode + 1, !.frames = 0]
  /\ UNCHANGED <<buffer, stepCount, trainingInProgress, fitting, ev, nFrames>>
  /\ UNCHANGED <<brainVars, bufVars, tgtVars, tabVars, gameVars>>

\* async create(): loadBrain() while generation is 1, then the per-episode
\* fields reset.
NeuralCreate ==
  /\ nPhase \in {"boot", "over"}
  /\ nScene.generation <= MaxEpisodes
  /\ fitting = {}
  /\ LET r == IF nScene.generation = 1
              THEN DqnLoadBrain(model, targetModel, dqnEpsilon, dqnStore, dqnMeta)
              ELSE [model |-> model, targetModel |-> targetModel, epsilon |-> dqnEpsilon,
                    success |-> FALSE, generation |-> 1, threw |-> FALSE]
     IN /\ model' = r.model
        /\ targetModel' = r.targetModel
        /\ dqnEpsilon' = r.epsilon
        /\ nScene' = [gameOver |-> FALSE,
                      generation |-> IF r.success THEN r.generation ELSE nScene.generation,
                      lastState |-> NoState, lastAction |-> NoAction, bonusReward |-> 0]
  /\ nPhase' = "play"
  /\ nEv' = NeuralEvent("create", "ok")
  /\ nTrace' = [BonusCleared(nTrace, nScene.bonusReward) EXCEPT
                  !.episode = nTrace.episode + 1, !.frames = 0,
                  !.lastFrame = 0, !.lastEpisode = 0]
  /\ UNCHANGED <<buffer, stepCount, trainingInProgress, fitting, ev, nFrames>>
  /\ UNCHANGED <<brainVars, bufVars, tgtVars, tabVars, gameVars>>

\* The rest of update() after the transition is stored and train() has
\* returned: bonusReward = 0, chooseAction, the step memory, the bounds test.
\* getQValues(currentState) then throws on the 4-component state, which ends
\* the handler after everything it changes.
NeuralAct(currentState, out) ==
  \E o \in DqnChooseAction(model', dqnEpsilon', currentState) :
    IF o.threw
    THEN /\ nScene' = [nScene EXCEPT !.bonusReward = 0]
         /\ nPhase' = nPhase
         /\ nEv' = NeuralEvent("update", "chooseActionRejected")
    ELSE /\ nScene' = [nScene EXCEPT !.bonusReward = 0, !.lastState = currentState,
                                     !.lastAction = o.action]
         /\ nPhase' = IF out THEN "oob" ELSE nPhase
         /\ nEv' = NeuralEvent("update",
                               IF StateShapeError(currentState) THEN "getQValuesRejected"
                               ELSE "ok")

\* async update(), for a frame in which no train() call suspends in a fit,
\* whose observation is one of states and whose proximity reward is one of
\* proxRewards.  When the bird is out of
\* bounds the handler calls this.hitPipe() (nPhase "oob": the call is the next
\* step).
NeuralFrame(states, proxRewards) ==
  /\ nPhase = "play"
  /\ ~nScene.gameOver
  /\ nFrames < MaxFrames
  /\ stepCount < MaxSteps
  /\ nFrames' = nFrames + 1
  /\ \E currentState \in states, prox \in proxRewards, out \in BOOLEAN :
       IF HasLast(nScene)
       THEN /\ buffer' = ReplayBufferAdd(buffer, REPLAY_BUFFER_SIZE,
                            Transition(nScene.lastState, nScene.lastAction,
                                       1 * NR_UNIT + nScene.bonusReward + prox,
                                       currentState, nScene.gameOver))
            /\ Train(buffer')
            /\ ev'.kind # "suspended"
            /\ IF TrainRejected(ev')
               THEN /\ nScene' = nScene
                    /\ nPhase' = nPhase
                    /\ nEv' = NeuralEvent("update", "trainRejected")
               ELSE NeuralAct(currentState, out)
       ELSE /\ UNCHANGED <<buffer, stepCount, trainingInProgress, model, targetModel,
                           dqnEpsilon, fitting, ev>>
            /\ NeuralAct(currentState, out)
  /\ LET bonus == nScene.bonusReward > 0
         t0 == [nTrace EXCEPT !.frames = nTrace.frames + 1]
         t1 == IF HasLast(nScene)
               THEN [t0 EXCEPT
                       !.log = Append(nTrace.log, Recorded(nTrace, nFrames', FALSE, bonus)),
                       !.bonusAdds = nTrace.bonusAdds + (IF bonus THEN 1 ELSE 0)]
               ELSE t0
         t2 == IF nEv'.outcome = "trainRejected" THEN t1
               ELSE BonusCleared(t1, nScene.bonusReward)
     IN nTrace' = IF nEv'.outcome \in {"ok", "getQValuesRejected"}
                  THEN [t2 EXCEPT !.lastFrame = nFrames', !.lastEpisode = nTrace.episode]
                  ELSE t2
  /\ UNCHANGED <<brainVars, bufVars, tgtVars, tabVars, gameVars>>

\* The overlap callback of a scoring zone that has not scored yet.
NeuralZoneOverlap ==
  /\ nPhase = "play"
  /\ nScene.bonusReward = 0
  /\ nScene' = [nScene EXCEPT !.bonusReward = N_PIPE_BONUS]
  /\ nEv' = NeuralEvent("overlap", "ok")
  /\ nTrace' = [nTrace EXCEPT !.bonusAdds = 0]
  /\ UNCHANGED <<nPhase, nFrames>>
  /\ UNCHANGED <<dqnVars, brainVars, bufVars, tgtVars, tabVars, gameVars>>

\* The rest of hitPipe() after its train() call: generation++,
\* saveBrain(generation), endGame().
NeuralEpisodeEnd ==
  LET gen == nScene.generation + 1
      r == DqnSaveBrain(model', dqnEpsilon', gen)
  IN /\ nScene' = [nScene EXCEPT !.gameOver = TRUE, !.generation = gen]
     /\ dqnStore' = r.store
     /\ dqnMeta' = r.meta
     /\ nPhase' = "over"
     /\ nEv' = NeuralEvent("hitPipe", "ended")

\* async hitPipe(), called by a collider callback or by update() (nPhase
\* "oob"): nothing when gameOver is set; otherwise gameOver = true, the terminal
\* transition and train(), generation++, saveBrain(generation), endGame().  A
\* train() that rejects ends the handler with gameOver set and nothing else done.
NeuralHitPipe ==
  /\ nPhase \in {"play", "oob", "over", "stuck"}
  /\ IF nScene.gameOver
     THEN /\ nEv' = NeuralEvent("hitPipe", "ignored")
          /\ UNCHANGED <<nScene, nPhase, dqnVars, dqnStore, dqnMeta>>
     ELSE IF HasLast(nScene)
          THEN /\ stepCount < MaxSteps
               /\ buffer' = ReplayBufferAdd(buffer, REPLAY_BUFFER_SIZE,
                               Transition(nScene.lastState, nScene.lastAction,
                                          N_DEATH_REWARD, TerminalState, TRUE))
               /\ Train(buffer')
               /\ ev'.kind # "suspended"
               /\ IF TrainRejected(ev')
                  THEN /\ nScene' = [nScene EXCEPT !.gameOver = TRUE]
                       /\ nPhase' = "stuck"
                       /\ nEv' = NeuralEvent("hitPipe", "trainRejected")
                       /\ UNCHANGED <<dqnStore, dqnMeta>>
                  ELSE NeuralEpisodeEnd
          ELSE /\ UNCHANGED <<buffer, stepCount, trainingInProgress, model, targetModel,
                              dqnEpsilon, fitting, ev>>
               /\ NeuralEpisodeEnd
  /\ nTrace' = IF ~nScene.gameOver /\ HasLast(nScene)
               THEN [nTrace EXCEPT !.log = Append(nTrace.log, Recorded(nTrace, 0, TRUE, FALSE))]
               ELSE nTrace
  /\ UNCHANGED <<brainEv, brainOps, nFrames>>
  /\ UNCHANGED <<bufVars, tgtVars, tabVars, gameVars>>

NeuralUpdate == NeuralFrame(NeuralStates, NProxRewards)

NextNeural == NeuralCreate \/ NeuralUpdate \/ NeuralZoneOverlap \/ NeuralHitPipe

SpecNeural == Init /\ [][NextNeural]_vars

\* The neural scene over several episodes, with one observation and one
\* distance from the gap centre in every frame (proximityReward 0).
NeuralUpdateLevel == NeuralFrame({Vec(STATE_DIM, 1)}, {0})

NextEpisodes == NeuralCreate \/ NeuralUpdateLevel \/ NeuralZoneOverlap \/ NeuralHitPipe

SpecEpisodes == Init /\ [][NextEpisodes]_vars

(***************************************************************************)
(* The ReplayBuffer on its own: add() called MaxAdds times with transitions *)
(* that can be told apart.                                                 *)
(***************************************************************************)
BufferInputs ==
  { Transition(Vec(STATE_DIM, 0), ACTION_IDLE, r, Vec(STATE_DIM, 1), FALSE) :
      r \in 1..3 }

BufferAdd ==
  /\ Len(added) < MaxAdds
  /\ \E t \in BufferInputs :
       /\ buffer' = ReplayBufferAdd(buffer, REPLAY_BUFFER_SIZE, t)
       /\ added' = Append(added, t)
  /\ UNCHANGED sampled
  /\ UNCHANGED <<stepCount, trainingInProgress, model, targetModel, dqnEpsilon,
                 fitting, ev>>
  /\ UNCHANGED <<tgtVars, tabVars, gameVars, brainVars, neuralVars>>

NextBuffer == BufferAdd

SpecBuffer == Init /\ [][NextBuffer]_vars

(***************************************************************************)
(* The sampling strategies of the ReplayBuffer on their own: a buffer is   *)
(* drawn, and a strategy is called with a batch size.                      *)
(***************************************************************************)
Strategies == {"sampleRandomBasic", "sampleLastPrioritizedAndRandom",
               "sampleRewardPrioritized"}

\* Every batch the strategy can return.
SampleWith(strategy, buf, batchSize) ==
  IF strategy = "sampleRandomBasic" THEN SampleRandomBasic(buf, batchSize)
  ELSE IF strategy = "sampleLastPrioritizedAndRandom"
       THEN SampleLastPrioritizedAndRandom(buf, batchSize)
       ELSE SampleRewardPrioritized(buf, batchSize)

\* Buffers add() can have built: up to the capacity, oldest first.
SampleBuffers ==
  UNION { [1..n -> BufferInputs] : n \in 0..REPLAY_BUFFER_SIZE }

InitSample ==
  /\ buffer \in SampleBuffers
  /\ added = buffer
  /\ sampled = NoSample
  /\ stepCount = 0
  /\ trainingInProgress = FALSE
  /\ model = 0
  /\ targetModel = 0
  /\ dqnEpsilon = DQN_EPSILON_INIT
  /\ fitting = {}
  /\ ev = Event("init", 0, FALSE, FALSE)
  /\ tBatch = <<>>
  /\ tTargets = <<>>
  /\ tRows = <<>>
  /\ InitTab /\ InitScene /\ InitBrain /\ InitNeural

\* replayBuffer.<strategy>(batchSize)
SampleCall ==
  /\ \E strategy \in Strategies, batchSize \in 0..MaxSampleWork :
       /\ batchSize * Len(buffer) <= MaxSampleWork
       /\ \E batch \in SampleWith(strategy, buffer, batchSize) :
            sampled' = [valid |-> TRUE, strategy |-> strategy,
                        batchSize |-> batchSize, batch |-> batch]
  /\ UNCHANGED <<dqnVars, added, tgtVars, tabVars, gameVars, brainVars, neuralVars>>

NextSample == SampleCall

SpecSample == InitSample /\ [][NextSample]_vars

(***************************************************************************)
(* The target computation of a learning step on its own: a batch and the   *)
(* target parameters are drawn, and targetQ is computed once.              *)
(***************************************************************************)
TargetStates == { Vec(INPUT_DIM, v) : v \in 0..2 }

TargetInputs ==
  { Transition(Vec(INPUT_DIM, 1), a, r, s2, d) :
      a \in ACTION_IDS, r \in {1, -50}, s2 \in TargetStates, d \in BOOLEAN }

InitTargets ==
  /\ InitDqn
  /\ added = <<>>
  /\ sampled = NoSample
  /\ tBatch \in [1..BATCH_SIZE -> TargetInputs]
  /\ tTargets = <<>>
  /\ tRows = <<>>
  /\ InitTab
  /\ InitScene
  /\ InitBrain
  /\ InitNeural

\* Lines 216-227 of train(): targetQArray and the rows of the targets tensor,
\* for target parameters w and online parameters wo.
ComputeTargets ==
  /\ tTargets = <<>>
  /\ \E w \in 0..MaxWeights, wo \in 0..MaxWeights :
       /\ targetModel' = w
       /\ model' = wo
       /\ tTargets' = TargetQ(tBatch, w)
       /\ tRows' = TargetRows(tBatch, wo, w)
  /\ UNCHANGED <<buffer, stepCount, trainingInProgress, dqnEpsilon,
                 fitting, ev, tBatch>>
  /\ UNCHANGED <<bufVars, tabVars, gameVars, brainVars, neuralVars>>

NextTargets == ComputeTargets

SpecTargets == InitTargets /\ [][NextTargets]_vars


(***************************************************************************)
(* The tabular module under any order of calls of its exported functions,  *)
(* and a reload of the page (the module's variables start over, the stored *)
(* item stays).                                                           *)
(***************************************************************************)
\* Rewards handed to updateQ, in 1/Q_UNIT: 10 and -100.
TabRewards == {10 * Q_UNIT, -100 * Q_UNIT}

\* Values handed to setEpsilon: 0 (no exploration).
EpsilonInputs == {0}

\* Generations handed to saveBrain.
GenInputs == {1, 7}

TabCall == tabOps < MaxTabOps /\ tabOps' = tabOps + 1

CallChooseAction ==
  /\ TabCall
  /\ \E s \in StateKeys : \E o \in chooseAction(Q, epsilon, s) :
       /\ Q' = o[1]
       /\ tabEv' = [op |-> "chooseAction", state |-> s, action |-> o[2],
                    unseen |-> s \notin DOMAIN Q]
  /\ UNCHANGED <<epsilon, storage, saved, tabUpdates>>
  /\ UNCHANGED <<dqnVars, bufVars, tgtVars, gameVars, brainVars, neuralVars>>

CallGetQ ==
  /\ TabCall
  /\ \E s \in StateKeys :
       /\ Q' = getQ(Q, s)
       /\ tabEv' = [op |-> "getQ", state |-> s]
  /\ UNCHANGED <<epsilon, storage, saved, tabUpdates>>
  /\ UNCHANGED <<dqnVars, bufVars, tgtVars, gameVars, brainVars, neuralVars>>

CallUpdateQ ==
  /\ TabCall
  /\ tabUpdates < MaxUpdates
  /\ tabUpdates' = tabUpdates + 1
  /\ \E s \in StateKeys, a \in ACTION_IDS, r \in TabRewards, s2 \in StateKeys :
       /\ Q' = updateQ(Q, s, a, r, s2)
       /\ tabEv' = [op |-> "updateQ", state |-> s, action |-> a, reward |-> r,
                    nextState |-> s2]
  /\ UNCHANGED <<epsilon, storage, saved>>
  /\ UNCHANGED <<dqnVars, bufVars, tgtVars, gameVars, brainVars, neuralVars>>

CallDecayEpsilon ==
  /\ TabCall
  /\ epsilon' = decayEpsilon(epsilon)
  /\ tabEv' = TabEvent("decayEpsilon")
  /\ UNCHANGED <<Q, storage, saved, tabUpdates>>
  /\ UNCHANGED <<dqnVars, bufVars, tgtVars, gameVars, brainVars, neuralVars>>

CallSetEpsilon ==
  /\ TabCall
  /\ \E v \in EpsilonInputs : epsilon' = v
  /\ tabEv' = TabEvent("setEpsilon")
  /\ UNCHANGED <<Q, storage, saved, tabUpdates>>
  /\ UNCHANGED <<dqnVars, bufVars, tgtVars, gameVars, brainVars, neuralVars>>

CallSaveBrain ==
  /\ TabCall
  /\ \E gen \in GenInputs :
       /\ storage' = saveBrain(Q, epsilon, gen)
       /\ saved' = [valid |-> TRUE, Q |-> Q, epsilon |-> epsilon, gen |-> gen]
  /\ tabEv' = TabEvent("saveBrain")
  /\ UNCHANGED <<Q, epsilon, tabUpdates>>
  /\ UNCHANGED <<dqnVars, bufVars, tgtVars, gameVars, brainVars, neuralVars>>

CallLoadBrain ==
  /\ TabCall
  /\ LET r == loadBrain(Q, epsilon, storage)
     IN /\ Q' = r.Q
        /\ epsilon' = r.epsilon
        /\ tabEv' = [op |-> "loadBrain", success |-> r.success /\ ~r.threw,
                     generation |-> r.generation, fresh |-> tabEv.op = "reload",
                     threw |-> r.threw]
  /\ UNCHANGED <<storage, saved, tabUpdates>>
  /\ UNCHANGED <<dqnVars, bufVars, tgtVars, gameVars, brainVars, neuralVars>>

\* resetBrain(): Q = {}, epsilon = 0.1, saveBrain() with no generation.
CallResetBrain ==
  /\ TabCall
  /\ Q' = EmptyQ
  /\ epsilon' = TAB_EPSILON_RESET
  /\ storage' = saveBrain(EmptyQ, TAB_EPSILON_RESET, 0)
  /\ saved' = NoSave
  /\ tabEv' = TabEvent("resetBrain")
  /\ UNCHANGED tabUpdates
  /\ UNCHANGED <<dqnVars, bufVars, tgtVars, gameVars, brainVars, neuralVars>>

\* The page is loaded again: the module's variables are initialised anew.
Reload ==
  /\ TabCall
  /\ Q' = EmptyQ
  /\ epsilon' = TAB_EPSILON_INIT
  /\ tabEv' = TabEvent("reload")
  /\ UNCHANGED <<storage, saved, tabUpdates>>
  /\ UNCHANGED <<dqnVars, bufVars, tgtVars, gameVars, brainVars, neuralVars>>

\* Items another page of the origin, or the user, leaves under the key.
ForeignItems == {NoItem, GarbledItem, NoTableItem, NullItem}

\* The item under 'flappy_brain' is replaced from outside the module.
ForeignWrite ==
  /\ TabCall
  /\ \E item \in ForeignItems : storage' = item
  /\ saved' = NoSave
  /\ tabEv' = TabEvent("foreignWrite")
  /\ UNCHANGED <<Q, epsilon, tabUpdates>>
  /\ UNCHANGED <<dqnVars, bufVars, tgtVars, gameVars, brainVars, neuralVars>>

NextTab ==
  \/ ForeignWrite
  \/ CallGetQ
  \/ CallChooseAction
  \/ CallUpdateQ
  \/ CallDecayEpsilon
  \/ CallSetEpsilon
  \/ CallSaveBrain
  \/ CallLoadBrain
  \/ CallResetBrain
  \/ Reload

SpecTab == Init /\ [][NextTab]_vars

(***************************************************************************)
(* Claims about the tabular module.                                        *)
(***************************************************************************)
\* The value of (k, a) in table q, 0 for a key that is not in it.
ValueOr0(q, k, a) == IF k \in DOMAIN q THEN q[k][a] ELSE 0

\* C7: updateQ(state, action, reward, nextState) leaves a table that holds the
\* old keys, state and nextState; the entry (state, action) is
\* old + alpha * (reward + gamma * max of nextState's old values - old), every
\* other entry is its old value, or 0 where the key is new; and old = 0,
\* reward = 10, next max 0 give exactly 2.
C7_UpdateQBellman ==
  [][ tabEv'.op = "updateQ" /\ tabOps' = tabOps + 1 =>
        LET s == tabEv'.state
            a == tabEv'.action
            r == tabEv'.reward
            s2 == tabEv'.nextState
            old == ValueOr0(Q, s, a)
            maxNext == Max2(ValueOr0(Q, s2, ACTION_IDLE), ValueOr0(Q, s2, ACTION_FLAP))
        IN /\ DOMAIN Q' = DOMAIN Q \cup {s, s2}
           /\ \A k \in DOMAIN Q' : DOMAIN Q'[k] = ACTION_IDS
           /\ Q'[s][a] = old + (r + TAB_GAMMA * maxNext - old) \div ALPHA_DEN
           /\ \A k \in DOMAIN Q' : \A b \in ACTION_IDS :
                (k # s \/ b # a) => Q'[k][b] = ValueOr0(Q, k, b)
           /\ (old = 0 /\ r = 10 * Q_UNIT /\ maxNext = 0) => Q'[s][a] = 2 * Q_UNIT
    ]_vars

\* C7 witness: an update was made towards a next state whose best value was
\* not 0, on a table that held other entries.
C7_Witness ==
  /\ tabEv.op = "updateQ"
  /\ tabEv.state # tabEv.nextState
  /\ Q[tabEv.nextState][ACTION_IDLE] # Q[tabEv.nextState][ACTION_FLAP]
  /\ Q[tabEv.state][tabEv.action] # 2 * Q_UNIT
  /\ Q[tabEv.state][tabEv.action] > 0

\* C10: after saveBrain(gen), loadBrain() in a freshly loaded module succeeds
\* with generation gen and leaves the saved table and the saved exploration rate.
C10_SaveLoadRoundTrip ==
  (tabEv.op = "loadBrain" /\ tabEv.fresh /\ saved.valid) =>
    /\ tabEv.success
    /\ tabEv.generation = saved.gen
    /\ Q = saved.Q
    /\ epsilon = saved.epsilon

\* C16: every key of the table has exactly the two entries IDLE and FLAP; a
\* getQ, chooseAction or updateQ call changes no entry but the one updateQ
\* writes, and every key it adds has both entries 0, so an entry that was never
\* updated is 0; chooseAction with epsilon = 0 on a key that is not in the table
\* adds it with both entries 0.
C16_TwoEntriesZeroInit ==
  /\ [](\A k \in DOMAIN Q : DOMAIN Q[k] = ACTION_IDS)
  /\ [][ (tabOps' = tabOps + 1 /\ tabEv'.op \in {"getQ", "chooseAction", "updateQ"}) =>
           /\ DOMAIN Q \subseteq DOMAIN Q'
           /\ \A k \in DOMAIN Q' : \A a \in ACTION_IDS :
                (tabEv'.op = "updateQ" /\ k = tabEv'.state /\ a = tabEv'.action)
                  \/ Q'[k][a] = ValueOr0(Q, k, a)
           /\ (tabEv'.op = "getQ") => tabEv'.state \in DOMAIN Q'
           /\ (tabEv'.op = "chooseAction" /\ epsilon = 0) =>
                /\ tabEv'.state \in DOMAIN Q'
                /\ tabEv'.unseen =>
                     \A a \in ACTION_IDS : Q'[tabEv'.state][a] = 0
       ]_vars

\* C16 witness: chooseAction with epsilon = 0 was called on a key that was not
\* in a table holding an updated entry, and the key now has two entries equal
\* to 0.
C16_Witness ==
  /\ tabEv.op = "chooseAction"
  /\ tabEv.unseen
  /\ epsilon = 0
  /\ DOMAIN Q[tabEv.state] = ACTION_IDS
  /\ \A a \in ACTION_IDS : Q[tabEv.state][a] = 0
  /\ \E k \in DOMAIN Q : \E a \in ACTION_IDS : Q[k][a] # 0

\* C11: loadBrain() called with the item missing, unparseable, or parseable
\* without a table does not throw, returns success = false and generation = 1,
\* and leaves the table and the exploration rate as they were.
C11_LoadBrainNeverThrows ==
  [][ ( /\ tabEv'.op = "loadBrain"
        /\ tabOps' = tabOps + 1
        /\ storage.kind # "json" ) =>
        /\ ~tabEv'.threw
        /\ ~tabEv'.success
        /\ tabEv'.generation = 1
        /\ Q' = Q
        /\ epsilon' = epsilon
    ]_vars

\* The same for the items loadBrain() handles: missing, or without a table.
C11_LoadBrainNotFound ==
  [][ ( /\ tabEv'.op = "loadBrain"
        /\ tabOps' = tabOps + 1
        /\ storage \in {NoItem, NoTableItem} ) =>
        /\ ~tabEv'.threw
        /\ ~tabEv'.success
        /\ tabEv'.generation = 1
        /\ Q' = Q
        /\ epsilon' = epsilon
    ]_vars

(***************************************************************************)
(* Tabular game scene (src/unnamed/part_000, class Game)                   *)
(***************************************************************************)
\* hitPipe() with saveBrain(generation) called first, before the terminal
\* update, the increment and the decay.
hitPipe_SaveFirst(q, e, item, sc) ==
  IF sc.gameOver THEN [Q |-> q, epsilon |-> e, storage |-> item, scene |-> sc, ended |-> FALSE]
  ELSE LET q1 == IF sc.lastState # NoState /\ sc.lastAction # NoAction
                 THEN updateQ(q, sc.lastState, sc.lastAction, DEATH_REWARD, sc.lastState)
                 ELSE q
       IN [Q |-> q1, epsilon |-> decayEpsilon(e),
           storage |-> saveBrain(q, e, sc.generation),
           scene |-> [sc EXCEPT !.gameOver = TRUE, !.generation = sc.generation + 1],
           ended |-> TRUE]

\* hitPipe(): nothing when gameOver is set; otherwise gameOver = true, the
\* terminal update, generation++, decayEpsilon(), saveBrain(generation), endGame().
hitPipe(q, e, item, sc) ==
  IF sc.gameOver THEN [Q |-> q, epsilon |-> e, storage |-> item, scene |-> sc, ended |-> FALSE]
  ELSE LET q1 == IF sc.lastState # NoState /\ sc.lastAction # NoAction
                 THEN updateQ(q, sc.lastState, sc.lastAction, DEATH_REWARD, sc.lastState)
                 ELSE q
           gen == sc.generation + 1
           e1 == decayEpsilon(e)
       IN [Q |-> q1, epsilon |-> e1, storage |-> saveBrain(q1, e1, gen),
           scene |-> [sc EXCEPT !.gameOver = TRUE, !.generation = gen],
           ended |-> TRUE]

\* create(): loadBrain() while generation is 1, then the per-episode fields reset.
GameCreate ==
  /\ phase \in {"boot", "over"}
  /\ scene.generation <= MaxEpisodes
  /\ LET r == IF scene.generation = 1 THEN loadBrain(Q, epsilon, storage)
              ELSE [Q |-> Q, epsilon |-> epsilon, success |-> FALSE, generation |-> 1,
                    threw |-> FALSE]
     IN /\ Q' = r.Q
        /\ epsilon' = r.epsilon
        /\ scene' = [gameOver |-> FALSE,
                     generation |-> IF r.success THEN r.generation ELSE scene.generation,
                     lastState |-> NoState, lastAction |-> NoAction, bonusReward |-> 0]
  /\ phase' = "play"
  /\ gameEv' = "create"
  /\ UNCHANGED <<storage, saved, tabEv, tabOps, tabUpdates, frames>>
  /\ UNCHANGED <<dqnVars, bufVars, tgtVars, brainVars, neuralVars>>

\* update(): the update of the previous step, chooseAction, the step memory,
\* and hitPipe() when the bird has left the screen.
GameUpdate ==
  /\ phase = "play"
  /\ ~scene.gameOver
  /\ frames < MaxFrames
  /\ frames' = frames + 1
  /\ \E currentState \in StateKeys, prox \in ProxRewards, out \in BOOLEAN :
       LET q1 == IF scene.lastState # NoState /\ scene.lastAction # NoAction
                 THEN updateQ(Q, scene.lastState, scene.lastAction,
                              1 * Q_UNIT + scene.bonusReward + prox, currentState)
                 ELSE Q
       IN \E o \in chooseAction(q1, epsilon, currentState) :
            LET sc == [scene EXCEPT !.bonusReward = 0, !.lastState = currentState,
                                    !.lastAction = o[2]]
                h == IF out THEN hitPipe(o[1], epsilon, storage, sc)
                     ELSE [Q |-> o[1], epsilon |-> epsilon, storage |-> storage,
                           scene |-> sc, ended |-> FALSE]
            IN /\ Q' = h.Q
               /\ epsilon' = h.epsilon
               /\ storage' = h.storage
               /\ scene' = h.scene
               /\ phase' = IF h.ended THEN "over" ELSE phase
  /\ gameEv' = "update"
  /\ UNCHANGED <<saved, tabEv, tabOps, tabUpdates>>
  /\ UNCHANGED <<dqnVars, bufVars, tgtVars, brainVars, neuralVars>>

\* The overlap callback of a scoring zone that has not scored yet.
GameZoneOverlap ==
  /\ phase = "play"
  /\ ~scene.gameOver
  /\ scene.bonusReward = 0
  /\ scene' = [scene EXCEPT !.bonusReward = PIPE_BONUS]
  /\ gameEv' = "overlap"
  /\ UNCHANGED <<phase, frames>>
  /\ UNCHANGED <<tabVars, dqnVars, bufVars, tgtVars, brainVars, neuralVars>>

\* The collider callback of the bird and a pipe: hitPipe().  One physics step
\* can call it for several pipe bodies, endGame() having run or not.
GameCollide ==
  /\ phase \in {"play", "over"}
  /\ LET h == hitPipe(Q, epsilon, storage, scene)
     IN /\ Q' = h.Q
        /\ epsilon' = h.epsilon
        /\ storage' = h.storage
        /\ scene' = h.scene
        /\ phase' = IF h.ended THEN "over" ELSE phase
  /\ gameEv' = "collide"
  /\ UNCHANGED <<saved, tabEv, tabOps, tabUpdates, frames>>
  /\ UNCHANGED <<dqnVars, bufVars, tgtVars, brainVars, neuralVars>>

NextGame == GameCreate \/ GameUpdate \/ GameZoneOverlap \/ GameCollide

\* What an earlier session of the game left under 'flappy_brain': nothing, or
\* the record its hitPipe() saved after one episode of one step.
EarlierSessions ==
  { NoItem,
    saveBrain(updateQ(EmptyQ, <<1, 0>>, ACTION_FLAP, DEATH_REWARD, <<1, 0>>),
              decayEpsilon(TAB_EPSILON_INIT), 2) }

\* The page as loaded, with the item an earlier session left.
InitGame ==
  /\ InitDqn /\ InitOthers /\ InitScene /\ InitBrain /\ InitNeural
  /\ Q = EmptyQ
  /\ epsilon = TAB_EPSILON_INIT
  /\ storage \in EarlierSessions
  /\ saved = NoSave
  /\ tabEv = TabEvent("init")
  /\ tabOps = 0
  /\ tabUpdates = 0

SpecGame == InitGame /\ [][NextGame]_vars


(***************************************************************************)
(* decayEpsilon() of either agent called again and again.  The two rates   *)
(* are separate module variables: each is started at every value of its    *)
(* input set while the other rests on its floor.                           *)
(***************************************************************************)
\* Starting rates: 0.5, the initial rate, the rate after resetBrain(), values
\* next to the floor, the floor, and values below it.
TabEpsilonStarts ==
  {5000000, TAB_EPSILON_INIT, TAB_EPSILON_RESET, TAB_EPSILON_MIN + 1000,
   TAB_EPSILON_MIN + 1, TAB_EPSILON_MIN, TAB_EPSILON_MIN - 1, 0}

DqnEpsilonStarts ==
  {DQN_EPSILON_INIT, 1000000, DQN_EPSILON_MIN + 1000, DQN_EPSILON_MIN + 1,
   DQN_EPSILON_MIN, DQN_EPSILON_MIN - 1, 0}

InitDecay ==
  /\ buffer = <<>> /\ stepCount = 0 /\ trainingInProgress = FALSE
  /\ model = 0 /\ targetModel = 0 /\ fitting = {}
  /\ ev = Event("init", 0, FALSE, FALSE)
  /\ InitOthers
  /\ InitScene
  /\ InitBrain
  /\ InitNeural
  /\ Q = EmptyQ /\ storage = NoItem /\ saved = NoSave
  /\ tabEv = TabEvent("init") /\ tabOps = 0 /\ tabUpdates = 0
  /\ \/ epsilon \in TabEpsilonStarts /\ dqnEpsilon = DQN_EPSILON_MIN
     \/ epsilon = TAB_EPSILON_MIN /\ dqnEpsilon \in DqnEpsilonStarts

\* decayEpsilon() of the tabular module.
DecayTabStep ==
  /\ epsilon' = decayEpsilon(epsilon)
  /\ UNCHANGED <<Q, storage, saved, tabEv, tabOps, tabUpdates>>
  /\ UNCHANGED <<dqnVars, bufVars, tgtVars, gameVars, brainVars, neuralVars>>

\* DQNAgent.decayEpsilon().
DecayDqnStep ==
  /\ dqnEpsilon' = DqnDecayEpsilon(dqnEpsilon)
  /\ UNCHANGED <<buffer, stepCount, trainingInProgress, model, targetModel, fitting, ev>>
  /\ UNCHANGED <<tabVars, bufVars, tgtVars, gameVars, brainVars, neuralVars>>

NextDecay == DecayTabStep \/ DecayDqnStep

\* Repeated calls: a call that would change the rate is made sooner or later.
SpecDecay ==
  /\ InitDecay
  /\ [][NextDecay]_vars
  /\ WF_vars(DecayTabStep)
  /\ WF_vars(DecayDqnStep)

\* C9: a call of decayEpsilon() (of either agent) never raises the rate and
\* never takes a rate that is at least EPSILON_MIN below EPSILON_MIN; a rate
\* on the floor stays there; and under repeated calls a rate above the floor
\* reaches exactly EPSILON_MIN.
C9_DecayToFloor ==
  /\ [][ /\ epsilon' <= epsilon
         /\ epsilon >= TAB_EPSILON_MIN => epsilon' >= TAB_EPSILON_MIN
         /\ epsilon = TAB_EPSILON_MIN => epsilon' = TAB_EPSILON_MIN
         /\ dqnEpsilon' <= dqnEpsilon
         /\ dqnEpsilon >= DQN_EPSILON_MIN => dqnEpsilon' >= DQN_EPSILON_MIN
         /\ dqnEpsilon = DQN_EPSILON_MIN => dqnEpsilon' = DQN_EPSILON_MIN
       ]_vars
  /\ (epsilon > TAB_EPSILON_MIN) ~> (epsilon = TAB_EPSILON_MIN)
  /\ (dqnEpsilon > DQN_EPSILON_MIN) ~> (dqnEpsilon = DQN_EPSILON_MIN)

\* C9 witness: decay calls have brought the tabular rate from its start to a
\* value above the floor whose product with the decay factor is below the floor.
C9_Witness ==
  /\ epsilon \notin TabEpsilonStarts
  /\ epsilon > TAB_EPSILON_MIN
  /\ MulFrac(epsilon, TAB_DECAY_NUM, TAB_DECAY_DEN) < TAB_EPSILON_MIN

\* C8: the update hitPipe applies on a collision moves Q[lastState][lastAction]
\* towards the death reward alone: the value written is
\* old + alpha * (deathReward - old), whatever else the table holds.
C8_TerminalUpdateNoBootstrap ==
  [][ ( /\ gameEv' = "collide"
        /\ ~scene.gameOver
        /\ scene.lastState # NoState
        /\ scene.lastAction # NoAction ) =>
        LET old == ValueOr0(Q, scene.lastState, scene.lastAction)
        IN Q'[scene.lastState][scene.lastAction]
             = old + (DEATH_REWARD - old) \div ALPHA_DEN
    ]_vars

(***************************************************************************)
(* Claims about DQNAgent.train() and the ReplayBuffer.                     *)
(***************************************************************************)
\* A step of train() called by the host: only TrainCall advances stepCount.
IsTrainCall == stepCount' = stepCount + 1

\* The outcomes of a train() call that went past the three guards.
LearnKinds == {"tensorError", "targetError", "suspended"}
SkipKinds == {"throttled", "smallBuffer", "busy"}

NoLearningEffect ==
  /\ ev'.kind \in SkipKinds
  /\ UNCHANGED <<trainingInProgress, model, targetModel, dqnEpsilon, fitting, buffer>>

\* C1: at most one train() invocation is suspended in its fit at any time; a
\* train() call that arrives while trainingInProgress is true samples nothing,
\* starts no fit, decays nothing and leaves the flag set; when the suspended
\* invocation resumes the flag is cleared, and a call that then passes the
\* throttle and the buffer test with the flag clear starts a learning step.
C1_MutualExclusion ==
  /\ [](Cardinality(fitting) <= 1)
  /\ [][ /\ (IsTrainCall /\ trainingInProgress) => (NoLearningEffect /\ trainingInProgress')
         /\ (fitting' # fitting /\ fitting' \subseteq fitting) => ~trainingInProgress'
         /\ ( /\ IsTrainCall
              /\ ~trainingInProgress
              /\ stepCount' % TRAIN_THROTTLE = 0
              /\ Len(buffer) >= BATCH_SIZE ) => ev'.kind \in LearnKinds
       ]_vars

\* C1 witness: a fit has completed, a later call started a new learning step,
\* and a call arriving during it was skipped as busy.
C1_Witness ==
  /\ ev.kind = "busy"
  /\ fitting # {}
  /\ model >= 1
  /\ trainingInProgress

\* C2: once train() has set trainingInProgress, the flag is false again when
\* that invocation has ended, whatever raised: with no invocation suspended in
\* its fit, the flag is false.
C2_FlagReleasedOnEveryExit == (fitting = {}) => ~trainingInProgress

\* C3: the buffer never holds more than its capacity and always is the last
\* min(n, capacity) transitions added, in insertion order.
C3_FifoEviction ==
  LET n == Len(added)
      kept == Min2(n, REPLAY_BUFFER_SIZE)
  IN /\ Len(buffer) = kept
     /\ Len(buffer) <= REPLAY_BUFFER_SIZE
     /\ buffer = SubSeq(added, n - kept + 1, n)

\* C3 witness: more transitions were added than the buffer holds, and the
\* oldest one was a different transition from the one now at the head.
C3_Witness ==
  /\ Len(added) > REPLAY_BUFFER_SIZE
  /\ Len(buffer) = REPLAY_BUFFER_SIZE
  /\ added[1] # buffer[1]

\* C4: a train() call goes past its guards only when the step counter is a
\* multiple of TRAIN_THROTTLE and the buffer holds at least BATCH_SIZE
\* transitions; any other call samples nothing, fits nothing and leaves the
\* in-progress flag as it was.
C4_ThrottleAndBufferGuard ==
  [][ IsTrainCall =>
        /\ ev'.kind \in LearnKinds =>
             (stepCount' % TRAIN_THROTTLE = 0 /\ Len(buffer) >= BATCH_SIZE)
        /\ (stepCount' % TRAIN_THROTTLE # 0 \/ Len(buffer) < BATCH_SIZE) =>
             (NoLearningEffect /\ ev'.kind \in {"throttled", "smallBuffer"})
    ]_vars

\* C4 witness: a learning step was started by a call that passed both guards,
\* after an earlier call had been throttled.
C4_Witness ==
  /\ ev.kind = "suspended"
  /\ ev.step % TRAIN_THROTTLE = 0
  /\ ev.step > 1
  /\ Len(buffer) >= BATCH_SIZE

\* C5: when the invocation of train() in which the step counter reached a
\* multiple of TARGET_UPDATE_FREQ has ended (here: without raising), the target
\* parameters are the online parameters, whether it returned early or fitted.
C5_SyncAtEveryMultiple ==
  (ev.kind \in {"throttled", "smallBuffer", "busy", "fitDone"}
     /\ ev.step % TARGET_UPDATE_FREQ = 0) => targetModel = model

\* C6: the target of a sampled transition is reward + gamma * max(target(nextState))
\* when done is false and reward alone when done is true, so the target of a
\* done entry is the same whatever its nextState is replaced by.
C6_TerminalTargetNoBootstrap ==
  tTargets # <<>> =>
    \A k \in 1..Len(tBatch) :
      /\ tBatch[k].done => tTargets[k] = GAMMA_DEN * tBatch[k].reward
      /\ ~tBatch[k].done =>
           tTargets[k] = GAMMA_DEN * tBatch[k].reward
                           + GAMMA_NUM * MaxNextQ(targetModel, tBatch[k].nextState)
      /\ tBatch[k].done =>
           \A s \in TargetStates :
             TargetQ([tBatch EXCEPT ![k].nextState = s], targetModel)[k] = tTargets[k]

\* C6 witness: targets were computed for a batch holding a done entry whose
\* nextState the target model values at something other than 0, and an entry
\* that is not done.
C6_Witness ==
  /\ tTargets # <<>>
  /\ \E k \in 1..Len(tBatch) :
       tBatch[k].done /\ MaxNextQ(targetModel, tBatch[k].nextState) # 0
  /\ \E k \in 1..Len(tBatch) : ~tBatch[k].done

(***************************************************************************)
(* Claims about the persistence of the DQNAgent and its target network.    *)
(***************************************************************************)
\* A step that is a loadBrain() call.
IsDqnLoad == brainOps' = brainOps + 1 /\ brainEv'.op = "loadBrain"

\* C12: a loadBrain() call that returns success = false has not thrown and
\* leaves the online parameters, the target parameters and the exploration
\* rate as they were before the call.
C12_LoadFailureKeepsDefaults ==
  [][ (IsDqnLoad /\ ~brainEv'.success) =>
        /\ ~brainEv'.threw
        /\ model' = model
        /\ targetModel' = targetModel
        /\ dqnEpsilon' = dqnEpsilon
    ]_vars

\* The same for the case loadBrain() handles: nothing stored.
C12_LoadMissingModel ==
  [][ (IsDqnLoad /\ dqnStore = NoModel) =>
        /\ ~brainEv'.success
        /\ ~brainEv'.threw
        /\ brainEv'.generation = 1
        /\ model' = model
        /\ targetModel' = targetModel
        /\ dqnEpsilon' = dqnEpsilon
    ]_vars

\* C20: the target parameters equal the online parameters after construction;
\* they change only in a step that is the target synchronization of train()
\* or a loadBrain() call, never in a fit that ends without synchronization;
\* and after every step that changes them, and after every loadBrain() that
\* found a stored model, they equal the online parameters.
C20_TargetChangesOnlyAtSync ==
  /\ (brainOps = 0 /\ stepCount = 0) => targetModel = model
  /\ [][ /\ targetModel' # targetModel =>
              /\ \/ ev' # ev /\ ev'.kind \in {"fitDone", "fitError", "targetError"}
                            /\ ev'.synced
                 \/ IsDqnLoad
                 \/ brainEv'.op = "construct" /\ brainOps' = brainOps + 1
              /\ targetModel' = model'
         /\ (ev' # ev /\ ev'.kind \in {"fitDone", "fitError", "targetError"}) =>
              IF ev'.synced THEN targetModel' = model' ELSE targetModel' = targetModel
         /\ (IsDqnLoad /\ dqnStore # NoModel) =>
              (targetModel' = dqnStore /\ model' = dqnStore)
         /\ (brainEv'.op = "construct" /\ brainOps' = brainOps + 1) =>
              targetModel' = model'
       ]_vars

\* C20 witness: a fit changed the online parameters and left the target
\* alone, and a later loadBrain() set both to the stored parameters.
C20_Witness ==
  /\ brainEv.op = "loadBrain"
  /\ dqnStore # NoModel
  /\ dqnStore >= 1
  /\ targetModel = dqnStore
  /\ model = dqnStore
  /\ ev.kind = "fitDone"
  /\ ~ev.synced

\* C20 witness of the synchronization in train(): a fit ended at a multiple
\* of TARGET_UPDATE_FREQ and the target took the trained parameters.
C20_SyncWitness ==
  /\ ev.kind = "fitDone"
  /\ ev.synced
  /\ targetModel = model
  /\ model >= 1

(***************************************************************************)
(* Claims about the two game loops.                                        *)
(***************************************************************************)
\* The first hitPipe() of an episode of the neural scene: it sets gameOver.
NeuralFirstHit == ~nScene.gameOver /\ nScene'.gameOver

\* The first hitPipe() of an episode of the tabular scene.
TabularFirstHit == ~scene.gameOver /\ scene'.gameOver

\* C13 (neural loop): generation never decreases; it changes only in create()
\* and in the first hitPipe() of an episode; that invocation adds exactly one
\* to it, stores the terminal transition and persists the agent under the new
\* generation; a hitPipe() that finds gameOver set changes nothing.
C13_GenerationOncePerEpisode ==
  [][ /\ nScene'.generation >= nScene.generation
      /\ nScene'.generation # nScene.generation =>
            (NeuralFirstHit \/ nEv'.op = "create")
      /\ NeuralFirstHit =>
            /\ nScene'.generation = nScene.generation + 1
            /\ dqnMeta'.kind = "json"
            /\ dqnMeta'.generation = nScene'.generation
            /\ HasLast(nScene) =>
                  buffer'[Len(buffer')] =
                    Transition(nScene.lastState, nScene.lastAction,
                               N_DEATH_REWARD, TerminalState, TRUE)
      /\ (nScene.gameOver /\ nEv'.op = "hitPipe") =>
            UNCHANGED <<nScene, buffer, stepCount, dqnStore, dqnMeta>>
    ]_vars

\* C13 (tabular loop): the same for the tabular scene, whose hitPipe() is
\* called by collider callbacks and by the bounds test of update().
C13_TabularOncePerEpisode ==
  [][ /\ scene'.generation >= scene.generation
      /\ scene'.generation # scene.generation =>
            (TabularFirstHit \/ gameEv' = "create")
      /\ TabularFirstHit =>
            /\ scene'.generation = scene.generation + 1
            /\ storage'.kind = "json"
            /\ storage'.generation = scene'.generation
      /\ (scene.gameOver /\ gameEv' = "collide") =>
            UNCHANGED <<scene, Q, epsilon, storage>>
    ]_vars

\* C14 (neural loop): the hitPipe() that ends an episode persists an
\* exploration rate strictly below the rate in force before it, when that
\* rate was above the floor.
C14_DecayBeforePersist ==
  [][ ( /\ NeuralFirstHit
        /\ nEv'.outcome = "ended"
        /\ dqnEpsilon > DQN_EPSILON_MIN ) =>
        /\ dqnMeta'.kind = "json"
        /\ dqnMeta'.epsilon < dqnEpsilon
    ]_vars

\* C14 (tabular loop): the hitPipe() that ends an episode persists the rate
\* decayed once, which is strictly below the rate in force before it when that
\* rate was above the floor.
C14_TabularDecayBeforePersist ==
  [][ TabularFirstHit =>
        /\ storage'.kind = "json"
        /\ storage'.epsilon = decayEpsilon(epsilon)
        /\ epsilon' = decayEpsilon(epsilon)
        /\ epsilon > TAB_EPSILON_MIN => storage'.epsilon < epsilon
    ]_vars

\* C15: every state and next state stored by the neural game loop has
\* STATE_DIM = 4 components, this is the input length of the model, and no
\* call of chooseAction, getQValues or train is given a state of another
\* length (none of them fails on the shape of its input).
C15_StateLengthIsInputDim ==
  /\ \A k \in 1..Len(buffer) :
       /\ Len(buffer[k].state) = STATE_DIM
       /\ Len(buffer[k].nextState) = STATE_DIM
       /\ Len(buffer[k].state) = INPUT_DIM
       /\ Len(buffer[k].nextState) = INPUT_DIM
  /\ nScene.lastState # NoState => Len(nScene.lastState) = INPUT_DIM
  /\ ev.kind # "tensorError"
  /\ nEv.outcome \notin {"chooseActionRejected", "getQValuesRejected"}

\* The part of C15 that holds: every stored vector has STATE_DIM components.
C15_StoredStatesHaveFour ==
  \A k \in 1..Len(buffer) :
    /\ Len(buffer[k].state) = STATE_DIM
    /\ Len(buffer[k].nextState) = STATE_DIM

\* C17: no step of the tabular game loop (create() with its loadBrain() call
\* on start and on scene restart, update() with its updateQ and chooseAction,
\* the overlap callback, hitPipe() with its updateQ, decayEpsilon and
\* saveBrain) removes a key from the table.
C17_KeysGrowMonotonically ==
  [][ DOMAIN Q \subseteq DOMAIN Q' ]_vars

\* C17 witness: the scene restarted (create() ran again) on a table holding
\* two keys, more than any stored record it could have loaded at start.
C17_Witness ==
  /\ gameEv = "create"
  /\ phase = "play"
  /\ scene.generation >= 2
  /\ Cardinality(DOMAIN Q) = 2

\* C17 for the calls of the module made in any order: getQ, chooseAction,
\* updateQ, decayEpsilon, setEpsilon and saveBrain remove no key.
C17_ModuleCallsKeepKeys ==
  [][ ( /\ tabOps' = tabOps + 1
        /\ tabEv'.op \in {"getQ", "chooseAction", "updateQ", "decayEpsilon",
                          "setEpsilon", "saveBrain"} ) =>
        DOMAIN Q \subseteq DOMAIN Q'
    ]_vars

(***************************************************************************)
(* Claims about the sampling strategies of the ReplayBuffer.               *)
(***************************************************************************)
\* The transitions stored in the buffer.
Stored == { buffer[i] : i \in 1..Len(buffer) }

\* C18: every sampling strategy called with any batchSize on an empty buffer
\* returns a batch of length 0.
C18_EmptyBufferEmptyBatch ==
  (sampled.valid /\ Len(buffer) = 0) => sampled.batch = <<>>

\* C19: every sampling strategy called with any batchSize on a non-empty
\* buffer returns exactly batchSize entries, each a stored transition.
C19_BatchSizeExact ==
  (sampled.valid /\ Len(buffer) > 0) =>
    /\ Len(sampled.batch) = sampled.batchSize
    /\ \A k \in 1..Len(sampled.batch) : sampled.batch[k] \in Stored

\* The part of C19 that holds: no strategy returns an entry that is not
\* stored, and the two strategies other than sampleLastPrioritizedAndRandom
\* return exactly batchSize entries.
C19_EntriesAreStored ==
  (sampled.valid /\ Len(buffer) > 0) =>
    /\ \A k \in 1..Len(sampled.batch) : sampled.batch[k] \in Stored
    /\ sampled.strategy # "sampleLastPrioritizedAndRandom" =>
         Len(sampled.batch) = sampled.batchSize
    /\ Len(sampled.batch) <= sampled.batchSize

\* The part of C18 that holds: the two strategies other than
\* sampleRandomBasic return the empty batch on an empty buffer.
C18_GuardedStrategies ==
  (sampled.valid /\ Len(buffer) = 0 /\ sampled.strategy # "sampleRandomBasic") =>
    sampled.batch = <<>>

(***************************************************************************)
(* Claims about the learning step of the DQNAgent.                         *)
(***************************************************************************)
\* C21: in the regression row of each sampled transition the component of
\* the taken action is the computed target value and the component of the other
\* action is the online model's output for the transition's state.
C21_OnlyTakenActionOverwritten ==
  tRows # <<>> =>
    /\ Len(tRows) = Len(tBatch)
    /\ \A k \in 1..Len(tBatch) :
         /\ DOMAIN tRows[k] = ACTION_IDS
         /\ tRows[k][tBatch[k].action] = tTargets[k]
         /\ \A a \in ACTION_IDS \ {tBatch[k].action} :
              tRows[k][a] = GAMMA_DEN * Predict(model, tBatch[k].state)[a]

\* C21 witness: rows were built for a batch holding both actions, with an
\* entry whose target value differs from the online output it replaces and
\* from the online output of the action that was not taken.
C21_Witness ==
  /\ tRows # <<>>
  /\ \E k \in 1..Len(tBatch) : tBatch[k].action = ACTION_IDLE
  /\ \E k \in 1..Len(tBatch) :
       /\ tBatch[k].action = ACTION_FLAP
       /\ tTargets[k] # GAMMA_DEN * Predict(model, tBatch[k].state)[ACTION_FLAP]
       /\ tTargets[k] # tRows[k][ACTION_IDLE]
       /\ model # targetModel

\* C22: the exploration rate of the neural agent changes only when a fit
\* has completed without error, in the continuation of that train()
\* invocation, and then by exactly one decay (one product with EPSILON_DECAY,
\* floored at EPSILON_MIN); a train() call that is throttled, finds the buffer
\* too small, finds a step in flight, or whose step raised, leaves it as it was.
C22_DecayOncePerCompletedFit ==
  [][ /\ (fitting' # fitting /\ fitting' \subseteq fitting /\ ev'.kind = "fitDone") =>
           dqnEpsilon' = IF dqnEpsilon > DQN_EPSILON_MIN
                         THEN Max2(DQN_EPSILON_MIN,
                                   MulFrac(dqnEpsilon, DQN_DECAY_NUM, DQN_DECAY_DEN))
                         ELSE dqnEpsilon
      /\ ~(fitting' # fitting /\ fitting' \subseteq fitting /\ ev'.kind = "fitDone") =>
           dqnEpsilon' = dqnEpsilon
      /\ (IsTrainCall /\ ev'.kind \in SkipKinds \cup LearnKinds) =>
           dqnEpsilon' = dqnEpsilon
      /\ (fitting' # fitting /\ ev'.kind = "fitError") => dqnEpsilon' = dqnEpsilon
    ]_vars

\* C22 witness: two fits have completed, with throttled calls in between,
\* and the rate is the initial rate decayed twice.
C22_Witness ==
  /\ model >= 2
  /\ dqnEpsilon < DQN_EPSILON_INIT
  /\ dqnEpsilon =
       MulFrac(MulFrac(DQN_EPSILON_INIT, DQN_DECAY_NUM, DQN_DECAY_DEN),
               DQN_DECAY_NUM, DQN_DECAY_DEN)
  /\ ev.kind = "fitDone"
  /\ stepCount >= 4

(***************************************************************************)
(* Claims about action selection in the tabular module.                    *)
(***************************************************************************)
\* The actions chooseAction(state) can return from table Q when it exploits
\* (epsilon = 0 leaves no other path).
ExploitActions(state) == { o[2] : o \in chooseAction(Q, 0, state) }

\* C23: on its exploitation path chooseAction returns the action whose stored
\* value is strictly larger when the two differ, and can return IDLE as well
\* as FLAP when they are equal (0 = 0 for a key that is not in the table
\* included); and every call made with epsilon = 0 returned such an action.
C23_GreedyWithFreeTies ==
  /\ [](\A s \in StateKeys :
          LET idle == ValueOr0(Q, s, ACTION_IDLE)
              flap == ValueOr0(Q, s, ACTION_FLAP)
          IN /\ flap > idle => ExploitActions(s) = {ACTION_FLAP}
             /\ idle > flap => ExploitActions(s) = {ACTION_IDLE}
             /\ idle = flap => ExploitActions(s) = {ACTION_IDLE, ACTION_FLAP})
  /\ [][ (tabOps' = tabOps + 1 /\ tabEv'.op = "chooseAction" /\ epsilon = 0) =>
           LET s == tabEv'.state
               idle == ValueOr0(Q, s, ACTION_IDLE)
               flap == ValueOr0(Q, s, ACTION_FLAP)
           IN /\ flap > idle => tabEv'.action = ACTION_FLAP
              /\ idle > flap => tabEv'.action = ACTION_IDLE
       ]_vars

\* C23 witness: with epsilon = 0, chooseAction returned FLAP on a key whose two
\* values are equal, in a table where another key holds different values.
C23_Witness ==
  /\ tabEv.op = "chooseAction"
  /\ epsilon = 0
  /\ tabEv.action = ACTION_FLAP
  /\ Q[tabEv.state][ACTION_IDLE] = Q[tabEv.state][ACTION_FLAP]
  /\ \E k \in DOMAIN Q : Q[k][ACTION_IDLE] > Q[k][ACTION_FLAP]

(***************************************************************************)
(* Claims about the default sampling strategy.                             *)
(***************************************************************************)
\* How many entries of the sequence sq equal x.
CountIn(sq, x) == Cardinality({ i \in 1..Len(sq) : sq[i] = x })

C25_PersistAfterUpdateIncrementDecay ==
  [][ TabularFirstHit =>
        /\ storage'.kind = "json"
        /\ ParseQ(storage'.Q) = Q'
        /\ storage'.generation = scene'.generation
        /\ scene'.generation = scene.generation + 1
        /\ storage'.epsilon = epsilon'
        /\ epsilon' = IF epsilon > TAB_EPSILON_MIN
                      THEN Max2(TAB_EPSILON_MIN,
                                MulFrac(epsilon, TAB_DECAY_NUM, TAB_DECAY_DEN))
                      ELSE epsilon
        /\ (gameEv' = "collide" /\ scene.lastState # NoState) =>
              LET s == scene.lastState
                  a == scene.lastAction
                  old == ValueOr0(Q, s, a)
                  best == Max2(ValueOr0(Q, s, ACTION_IDLE), ValueOr0(Q, s, ACTION_FLAP))
              IN Q'[s][a] = old + (DEATH_REWARD + TAB_GAMMA * best - old) \div ALPHA_DEN
    ]_vars

\* C25 witness: a collision ended an episode in which an action had been
\* taken; the stored record holds the terminal update, the new generation and
\* the decayed rate.
C25_Witness ==
  /\ gameEv = "collide"
  /\ scene.gameOver
  /\ scene.lastState # NoState
  /\ storage.kind = "json"
  /\ storage.generation = scene.generation
  /\ scene.generation >= 2
  /\ storage.epsilon = epsilon
  /\ epsilon < TAB_EPSILON_INIT
  /\ ParseQ(storage.Q) = Q
  /\ Q[scene.lastState][scene.lastAction] < 0

(***************************************************************************)
(* Claims about the transitions the neural game loop records.              *)
(***************************************************************************)
\* The transitions update() has recorded so far, oldest first.
NonTerminal == SelectSeq(nTrace.log, LAMBDA r : ~r.done)

\* C26: the non-terminal transitions recorded within one episode form a chain:
\* each one pairs the observation and action of the immediately preceding
\* frame with the current frame, its state is the nextState of the transition
\* recorded before it in the episode, and no frame's (state, action) pair is
\* recorded in two transitions.
C26_TransitionsFormChain ==
  /\ \A i \in 1..Len(NonTerminal) : NonTerminal[i].from = NonTerminal[i].to - 1
  /\ \A i \in 1..(Len(NonTerminal) - 1) :
        NonTerminal[i].toEpisode = NonTerminal[i + 1].toEpisode =>
          NonTerminal[i + 1].from = NonTerminal[i].to
  /\ \A i, j \in 1..Len(NonTerminal) :
        NonTerminal[i].from = NonTerminal[j].from => i = j

\* A rejected chooseAction() left lastState and lastAction as they were, and
\* the next frame recorded them a second time, with a different nextState.
C26_PairRecordedTwice ==
  /\ Len(NonTerminal) >= 2
  /\ LET a == NonTerminal[Len(NonTerminal) - 1]
         b == NonTerminal[Len(NonTerminal)]
     IN /\ a.from = b.from
        /\ a.toEpisode = b.toEpisode
        /\ b.to = a.to + 1
        /\ buffer[Len(buffer)].state = buffer[Len(buffer) - 1].state
        /\ buffer[Len(buffer)].nextState # buffer[Len(buffer) - 1].nextState

\* C27: every gap-pass bonus is included in the reward of exactly one recorded
\* transition: it is never added to the rewards of two transitions and never
\* cleared without having been added to one.
C27_BonusInExactlyOneReward ==
  /\ nTrace.bonusAdds <= 1
  /\ ~nTrace.bonusLost

\* The bird passed a gap and hit a pipe before the next update(): the terminal
\* transition carries the death reward alone and create() cleared the bonus.
C27_BonusLostAtEpisodeEnd ==
  /\ nEv.op = "create"
  /\ nTrace.bonusLost
  /\ nTrace.bonusAdds = 0
  /\ Len(nTrace.log) >= 1
  /\ nTrace.log[Len(nTrace.log)].done
  /\ ~nTrace.log[Len(nTrace.log)].bonus
  /\ buffer[Len(buffer)].reward = N_DEATH_REWARD

\* The update() that added the bonus was rejected by train() before
\* bonusReward = 0, and the next frame added the same bonus again (the fourth
\* frame of a session with BATCH_SIZE 2).
C27_BonusAddedTwice ==
  /\ nTrace.bonusAdds = 2
  /\ Len(buffer) >= 2
  /\ buffer[Len(buffer)].reward >= N_PIPE_BONUS
  /\ buffer[Len(buffer) - 1].reward >= N_PIPE_BONUS

\* C28: once hitPipe() has set gameOver, nothing is added to the replay buffer
\* and no update() runs or overwrites lastState/lastAction until create()
\* resets them, so the terminal transition is the last one of its episode; the
\* first frame of an episode finds lastState and lastAction null and records
\* nothing; and every recorded transition pairs a state and a nextState of
\* the same episode.
C28_EpisodesDoNotMix ==
  [][ /\ nScene.gameOver =>
            /\ buffer' = buffer
            /\ nEv'.op \in {"hitPipe", "create"}
            /\ nEv'.op = "hitPipe" =>
                  /\ nScene'.lastState = nScene.lastState
                  /\ nScene'.lastAction = nScene.lastAction
      /\ (nEv'.op = "update" /\ nTrace.frames = 0) =>
            /\ nScene.lastState = NoState
            /\ nScene.lastAction = NoAction
            /\ buffer' = buffer
            /\ nTrace'.log = nTrace.log
      /\ \A i \in 1..Len(nTrace'.log) :
            /\ nTrace'.log[i].fromEpisode = nTrace'.log[i].toEpisode
            /\ nTrace'.log[i].done =>
                  \A j \in (i + 1)..Len(nTrace'.log) :
                    nTrace'.log[j].toEpisode # nTrace'.log[i].toEpisode
    ]_vars

\* C28 witness: the first episode ended with a terminal transition, and the
\* second frame of the second episode recorded a transition of that episode's
\* first frame.
C28_Witness ==
  /\ nTrace.episode = 2
  /\ nTrace.frames = 2
  /\ Len(nTrace.log) = 2
  /\ nTrace.log[1].done
  /\ nTrace.log[1].toEpisode = 1
  /\ ~nTrace.log[2].done
  /\ nTrace.log[2].fromEpisode = 2
  /\ buffer[1].done
  /\ buffer[1].nextState = TerminalState
  /\ ~buffer[2].done

====
